---- MODULE Spec2Model ----
(***************************************************************************)
(* State-machine model of the shakaika membership application (Hono + D1). *)
(* The later revision (D1-backed sessions, events, surveys) is modelled:   *)
(* every HTTP handler is one action, every D1 table is a set of rows.      *)
(* D1 enforces foreign keys, UNIQUE and CHECK constraints per statement; a *)
(* failing statement throws, and Hono answers an uncaught throw with 500.  *)
(***************************************************************************)
EXTENDS Integers, FiniteSets, Sequences, TLC

\* ---------------------------------------------------------------- bounds
MaxUsers == 2
MaxTokens == 2
MaxNow == 2
MaxEvents == 1
\* events in the specification of the per-event export, where rows of two events meet
MaxExportEvents == 2

\* ------------------------------------------------------- program constants
\* session lifetime in weeks, the unit of the clock: 7 * 24 * 60 * 60 * 1000 ms
TTL_WEEKS == 1
MIN_PASSWORD_LENGTH == 4
MIN_STEP == 1
MAX_STEP == 4

validViewpoints == {"lesson_plan", "lesson_practice", "student_eval", "connection", "research"}
validRoles == {"member", "admin"}
ADMIN_EMAIL == "admin@example.com"
ADMIN_PASSWORD == "admin123"
SALT == "_shakaika_salt_2026"

\* ------------------------------------------------------------- JS values
Undef == [t |-> "undefined"]
Str(s) == [t |-> "string", v |-> s]
Num(n) == [t |-> "number", v |-> n]

\* JavaScript truthiness of a JSON value: !x
Falsy(x) ==
    \/ x.t = "undefined"
    \/ (x.t = "string" /\ x.v = "")
    \/ (x.t = "number" /\ x.v = 0)

\* x || '' as bound to a TEXT column
OrEmpty(x) == IF Falsy(x) THEN "" ELSE x.v

\* ---------------------------------------------------------------- inputs
\* a token string that generateToken has never returned
FORGED == MaxTokens + 1
NoHeader == [kind |-> "none", token |-> FORGED]
BasicHeader == [kind |-> "basic", token |-> FORGED]
Bearer(tk) == [kind |-> "bearer", token |-> tk]

MemberEmails == <<"a@example.com", "b@example.com", "c@example.com">>
EmailInputs == {Str(ADMIN_EMAIL), Undef} \cup {Str(MemberEmails[i]) : i \in 1..(MaxUsers - 1)}
PasswordInputs == {Str(ADMIN_PASSWORD), Str("pass1"), Str("abc"), Str("")}
\* register bodies: every email with every password, and one body per missing field
RegisterInputs ==
    {[name |-> Str("n"), school |-> Str("s"), email |-> e, password |-> pw]
        : e \in EmailInputs, pw \in PasswordInputs}
    \cup {[name |-> Undef, school |-> Str("s"), email |-> Str(MemberEmails[1]),
           password |-> Str(ADMIN_PASSWORD)],
          [name |-> Str("n"), school |-> Str(""), email |-> Str(MemberEmails[1]),
           password |-> Str(ADMIN_PASSWORD)],
          [name |-> Str("n"), school |-> Str("s"), email |-> Str(MemberEmails[1]),
           password |-> Undef]}
\* set bodies: the first cell without memo and the last cell with one, for two
\* viewpoints, and one body per kind of bad step and bad viewpoint
SetInputs ==
    {[viewpoint |-> vp, step |-> Num(1), memo |-> Undef] : vp \in {Str("lesson_plan"), Str("research")}}
    \cup {[viewpoint |-> vp, step |-> Num(4), memo |-> Str("m")]
            : vp \in {Str("lesson_plan"), Str("research")}}
    \cup {[viewpoint |-> Str("lesson_plan"), step |-> st, memo |-> Str("m")]
            : st \in {Undef, Num(-1), Num(0), Num(5)}}
    \cup {[viewpoint |-> vp, step |-> Num(1), memo |-> Str("m")] : vp \in {Str("homework"), Undef}}
ViewpointParams == {"lesson_plan", "research", "homework"}
RoleInputs == {Str("member"), Str("admin"), Str("owner"), Undef}
UserIds == 1..MaxUsers
EventIds == 1..MaxEvents
\* custom_questions of an event creation: the question_type of each question
QuestionInputs == {<<>>, <<"text">>, <<"essay">>}
SatisfactionInputs == {Undef, Num(3), Num(9)}
CommentInputs == {Undef, Str("c")}
\* custom_answers of a survey body: one entry per answered question
CustomAnswer(questionId, text) == [question_id |-> questionId, answer_text |-> text]
CustomInputs ==
    {<<>>, <<CustomAnswer(1, Str("x"))>>, <<CustomAnswer(1, Undef)>>,
     <<CustomAnswer(1, Str("x")), CustomAnswer(1, Str("y"))>>}

VARIABLES
    users,          \* table users: rows [id, name, email, school, password_hash, role]
    userSeq,        \* sqlite_sequence of users (AUTOINCREMENT never reuses an id)
    sessions,       \* table sessions: rows [token, user_id, expires_at]
    selections,     \* table selections: rows [user_id, viewpoint, step, memo]
    events,         \* table events: rows [id, event_code, is_active, created_by]
    eventSeq,       \* sqlite_sequence of events
    survey_questions, \* table survey_questions: rows [id, event_id, question_type]
    questionSeq,    \* sqlite_sequence of survey_questions
    attendances,    \* table attendances: rows [event_id, user_id, attended_at]
    survey_answers, \* table survey_answers: rows [event_id, user_id, satisfaction, comment]
    custom_answers, \* table custom_answers: rows [event_id, user_id, question_id, answer_text]
    now,            \* wall clock, in weeks
    issued,         \* history: token -> [at, user] as setToken stored it
    loggedOut,      \* history: tokens a logout request has deleted
    restarted,      \* history: tokens issued before the last restart of the worker
    page,           \* the My Page document of one browser tab, and its fetches
    calls,          \* the handlers that have run some of their statements but not all
    resp            \* the last request (route, Authorization header) and its response

eventTables == <<events, eventSeq, survey_questions, questionSeq, attendances,
                 survey_answers, custom_answers>>
dbRest == <<users, userSeq, selections, eventTables>>
db == <<sessions, dbRest>>
vars == <<db, now, issued, loggedOut, restarted, page, calls, resp>>

\* the Authorization headers of a client of the pages: none, or a token it was issued
IssuedHeaders == {Bearer(tk) : tk \in DOMAIN issued}
Headers == {NoHeader} \cup IssuedHeaders
\* and those of any client: a header of another scheme, a token never issued
AnyHeaders == Headers \cup {BasicHeader, Bearer(FORGED)}

\* ------------------------------------------------------------- utilities
\* SHA-256 of password + salt, hex encoded: injective on the passwords used
hashPassword(password) == <<"sha256", password \o SALT>>

Reply(op, hdr, status, body) ==
    [op |-> op, hdr |-> hdr, status |-> status, body |-> body]

UserById(id) == {u \in users : u.id = id}
UserByEmail(email) == {u \in users : u.email = email}
\* the role the account was created with: admin for the default admin, member for a
\* registered user
RoleOf_AsCreated(id) ==
    IF UserById(id) = {} THEN "none" ELSE IF id = 1 THEN "admin" ELSE "member"

\* SELECT id, name, school, email, role FROM users WHERE id = ?: the role as stored now
RoleOf(id) == IF UserById(id) = {} THEN "none" ELSE (CHOOSE u \in UserById(id) : TRUE).role

\* ------------------------------------------------------------------ text
\* A text is a sequence of pieces: each of the characters " , newline : | is a piece
\* of its own, and a run of other characters is kept as one piece.
QUOTE == "\""
COMMA == ","
NL == "\n"
COLON == ":"
PIPE == "|"
BOM == "BOM"

\* the pieces of the strings stored in TEXT columns
Chars(s) ==
    CASE s = "" -> <<>>
      [] s = "a:b" -> <<"a", COLON, "b">>
      [] s = "a||b" -> <<"a", PIPE, PIPE, "b">>
      [] s = "\"\n\"" -> <<QUOTE, NL, QUOTE>>
      [] s = "c,\"d" -> <<"c", COMMA, QUOTE, "d">>
      [] OTHER -> <<s>>

\* Array.prototype.join
RECURSIVE JoinText(_, _)
JoinText(texts, sep) ==
    IF texts = <<>> THEN <<>>
    ELSE IF Len(texts) = 1 THEN texts[1]
    ELSE texts[1] \o sep \o JoinText(Tail(texts), sep)

\* String.prototype.split with a string separator: the parts of rest after cur
RECURSIVE SplitFrom(_, _, _)
SplitFrom(rest, sep, cur) ==
    IF rest = <<>> THEN <<cur>>
    ELSE IF Len(rest) >= Len(sep) /\ SubSeq(rest, 1, Len(sep)) = sep
    THEN <<cur>> \o SplitFrom(SubSeq(rest, Len(sep) + 1, Len(rest)), sep, <<>>)
    ELSE SplitFrom(Tail(rest), sep, Append(cur, Head(rest)))

\* the quotes of a field left as they are
CsvEscape_None(text) == text

\* String(v).replace(/"/g, '""')
RECURSIVE CsvEscape(_)
CsvEscape(text) ==
    IF text = <<>> THEN <<>>
    ELSE IF Head(text) = QUOTE THEN <<QUOTE, QUOTE>> \o CsvEscape(Tail(text))
    ELSE <<Head(text)>> \o CsvEscape(Tail(text))

\* row.map(v => `"${String(v).replace(/"/g, '""')}"`).join(',') + '\n'
CsvRow(fields) ==
    JoinText([i \in 1..Len(fields) |-> <<QUOTE>> \o CsvEscape(fields[i]) \o <<QUOTE>>],
             <<COMMA>>) \o <<NL>>

\* headers.map(h => `"${h}"`).join(',') + '\n'
CsvHeader(headers) ==
    JoinText([i \in 1..Len(headers) |-> <<QUOTE>> \o headers[i] \o <<QUOTE>>],
             <<COMMA>>) \o <<NL>>

\* the ids of a set of rows in ascending order
RECURSIVE IdsInOrder(_)
IdsInOrder(ids) ==
    IF ids = {} THEN <<>>
    ELSE LET least == CHOOSE i \in ids : \A j \in ids : i <= j
         IN <<least>> \o IdsInOrder(ids \ {least})

\* A CSV reader (RFC 4180): a quote opens or closes a quoted field, a doubled quote
\* inside one stands for a quote, and only a comma or newline outside quotes separates.
\* position i of a text is outside quotes when an even number of quotes precede it
OutsideQuotes(text, i) == Cardinality({j \in 1..(i - 1) : text[j] = QUOTE}) % 2 = 0

\* the parts of a text between the separators that stand outside quotes
CsvParts(text, sep) ==
    LET cuts == IdsInOrder({i \in 1..Len(text) : text[i] = sep /\ OutsideQuotes(text, i)})
    IN [k \in 1..(Len(cuts) + 1) |->
          SubSeq(text, IF k = 1 THEN 1 ELSE cuts[k - 1] + 1,
                       IF k > Len(cuts) THEN Len(text) ELSE cuts[k] - 1)]

\* the content of a field: the enclosing quotes removed, doubled quotes halved
RECURSIVE CsvUnquote(_, _)
CsvUnquote(rest, inQuotes) ==
    IF rest = <<>> THEN <<>>
    ELSE IF Head(rest) # QUOTE THEN <<Head(rest)>> \o CsvUnquote(Tail(rest), inQuotes)
    ELSE IF inQuotes /\ Len(rest) >= 2 /\ rest[2] = QUOTE
    THEN <<QUOTE>> \o CsvUnquote(Tail(Tail(rest)), TRUE)
    ELSE CsvUnquote(Tail(rest), ~inQuotes)

\* the records of a response body that starts with the byte order mark: a text that
\* ends with a newline has no record after it
CsvRecords(csv) ==
    LET lines == CsvParts(Tail(csv), NL)
        kept == IF lines[Len(lines)] = <<>> THEN SubSeq(lines, 1, Len(lines) - 1) ELSE lines
    IN [r \in 1..Len(kept) |->
          LET fields == CsvParts(kept[r], COMMA)
          IN [f \in 1..Len(fields) |-> CsvUnquote(fields[f], FALSE)]]

\* datetime('now') and an INTEGER column as text
TimeText == <<"week0", "week1", "week2", "week3", "week4", "week5">>
Digits == <<"1", "2", "3", "4", "5">>
\* the viewpoints in the order of the rubric
vps == <<"lesson_plan", "lesson_practice", "student_eval", "connection", "research">>

\* ---------------------------------------------------------- token store
\* one session per user: the user's earlier rows give way to the new one
setToken_SingleSession(rows, token, userId) ==
    {s \in rows : s.user_id # userId}
        \cup {[token |-> token, user_id |-> userId, expires_at |-> now + TTL_WEEKS]}

\* INSERT OR REPLACE INTO sessions: token is the primary key
setToken(rows, token, userId) ==
    {s \in rows : s.token # token}
        \cup {[token |-> token, user_id |-> userId, expires_at |-> now + TTL_WEEKS]}

SessionByToken(token) == {s \in sessions : s.token = token}

\* expiry taken at the boundary: <= in place of <
IsExpired_Inclusive(row) == row.expires_at <= now

\* new Date(row.expires_at) < new Date()
IsExpired(row) == row.expires_at < now

\* the user id getUserIdFromToken returns (0 stands for null)
getUserIdFromToken(token) ==
    IF SessionByToken(token) = {} THEN 0
    ELSE LET row == CHOOSE s \in SessionByToken(token) : TRUE
         IN IF IsExpired(row) THEN 0 ELSE row.user_id

\* the sessions table getUserIdFromToken leaves behind
SessionsAfterLookup(token) ==
    {s \in sessions : ~(s.token = token /\ IsExpired(s))}

\* ------------------------------------------------------------ middleware
authMiddleware(hdr) ==
    IF hdr.kind # "bearer"
    THEN [status |-> 401, error |-> "login required", user |-> 0, sessions |-> sessions]
    ELSE LET userId == getUserIdFromToken(hdr.token)
         IN IF userId = 0
            THEN [status |-> 401, error |-> "session invalid", user |-> 0,
                  sessions |-> SessionsAfterLookup(hdr.token)]
            ELSE IF UserById(userId) = {}
                 THEN [status |-> 401, error |-> "user not found", user |-> 0,
                       sessions |-> sessions]
                 ELSE [status |-> 200, error |-> "", user |-> userId, sessions |-> sessions]

\* the role check lets every authenticated user through
adminMiddleware_AllowAll(userId) == 200

adminMiddleware(userId) == IF RoleOf(userId) # "admin" THEN 403 ELSE 200

\* a route registered with authMiddleware alone
adminGate_AuthOnly(hdr) == authMiddleware(hdr)

\* authMiddleware followed by adminMiddleware
adminGate(hdr) ==
    LET a == authMiddleware(hdr)
    IN IF a.status # 200 THEN a
       ELSE IF adminMiddleware(a.user) = 200 THEN a
       ELSE [a EXCEPT !.status = 403, !.error = "admin required"]

\* --------------------------------------------------------------- initial
\* no tab shows My Page
NoPage ==
    [load |-> "closed", token |-> FORGED, selected |-> {},
     res |-> Reply("none", NoHeader, 0, <<>>), sent |-> {}]

DefaultAdmin(id) ==
    [id |-> id, name |-> "admin", email |-> ADMIN_EMAIL, school |-> "(admin)",
     password_hash |-> hashPassword(ADMIN_PASSWORD), role |-> "admin"]

\* the database after the first GET /api/init
Init ==
    /\ users = {DefaultAdmin(1)}
    /\ userSeq = 1
    /\ sessions = {}
    /\ selections = {}
    /\ events = {}
    /\ eventSeq = 0
    /\ survey_questions = {}
    /\ questionSeq = 0
    /\ attendances = {}
    /\ survey_answers = {}
    /\ custom_answers = {}
    /\ now = 0
    /\ issued = <<>>
    /\ loggedOut = {}
    /\ restarted = {}
    /\ page = NoPage
    /\ calls = {}
    /\ resp = Reply("none", NoHeader, 0, <<>>)

\* a request that writes nothing
Answer(op, hdr, status, body) ==
    /\ resp' = Reply(op, hdr, status, body)
    /\ UNCHANGED <<db, now, issued, loggedOut, restarted, page, calls>>

\* a request stopped by authMiddleware or adminMiddleware
Denied(op, hdr, gate) ==
    /\ gate.status # 200
    /\ sessions' = gate.sessions
    /\ resp' = Reply(op, hdr, gate.status, gate.error)
    /\ UNCHANGED <<dbRest, now, issued, loggedOut, restarted, page, calls>>

\* ------------------------------------------------------------------ auth
\* generateToken: 256 random bits, a value no client has seen before
generateToken == Cardinality(DOMAIN issued) + 1

\* generateToken, then setToken
IssueToken(userId) ==
    /\ generateToken <= MaxTokens
    /\ sessions' = setToken(sessions, generateToken, userId)
    /\ issued' = (generateToken :> [at |-> now, user |-> userId]) @@ issued

\* the existence check finds nothing
EmailTaken_Never(email) == FALSE

\* SELECT id FROM users WHERE email = ? finds a row
EmailTaken(email) == UserByEmail(email) # {}

RegisterReq(name, school, email, password) ==
    IF Falsy(name) \/ Falsy(school) \/ Falsy(email) \/ Falsy(password)
    THEN Answer("register", NoHeader, 400, "required")
    ELSE IF Len(password.v) < MIN_PASSWORD_LENGTH
    THEN Answer("register", NoHeader, 400, "password too short")
    ELSE IF EmailTaken(email.v)
    THEN Answer("register", NoHeader, 400, "email already registered")
    ELSE /\ userSeq < MaxUsers
         /\ userSeq' = userSeq + 1
         /\ users' = users \cup {[id |-> userSeq + 1, name |-> name.v, email |-> email.v,
                                  school |-> school.v,
                                  password_hash |-> hashPassword(password.v),
                                  role |-> "member"]}
         /\ IssueToken(userSeq + 1)
         /\ resp' = Reply("register", NoHeader, 200,
                          [token |-> generateToken, user |-> userSeq + 1])
         /\ UNCHANGED <<selections, eventTables, now, loggedOut, restarted, page, calls>>

Register == \E b \in RegisterInputs : RegisterReq(b.name, b.school, b.email, b.password)

\* the password condition dropped from the WHERE clause
CredentialsMatch_EmailOnly(u, email, password) == u.email = email

\* WHERE email = ? AND password_hash = ?
CredentialsMatch(u, email, password) ==
    u.email = email /\ u.password_hash = hashPassword(password)

LoginReq(email, password) ==
    IF Falsy(email) \/ Falsy(password)
    THEN Answer("login", NoHeader, 400, "required")
    ELSE LET found == {u \in users : CredentialsMatch(u, email.v, password.v)}
         IN IF found = {}
            THEN Answer("login", NoHeader, 401, "bad credentials")
            ELSE LET user == CHOOSE u \in found : TRUE
                 IN /\ IssueToken(user.id)
                    /\ resp' = Reply("login", NoHeader, 200,
                                     [token |-> generateToken, user |-> user.id])
                    /\ UNCHANGED <<dbRest, now, loggedOut, restarted, page, calls>>

Login == \E email \in EmailInputs, password \in PasswordInputs : LoginReq(email, password)

\* the delete matches no row
DeleteSession_Keep(rows, token) == rows

\* DELETE FROM sessions WHERE token = ?
DeleteSession(rows, token) == {s \in rows : s.token # token}

LogoutReq(hdr) ==
    /\ IF hdr.kind = "bearer"
       THEN /\ sessions' = DeleteSession(sessions, hdr.token)
            /\ loggedOut' = loggedOut \cup {hdr.token}
       ELSE UNCHANGED <<sessions, loggedOut>>
    /\ resp' = Reply("logout", hdr, 200, "success")
    /\ UNCHANGED <<dbRest, now, issued, restarted, page, calls>>

Logout == \E hdr \in AnyHeaders : LogoutReq(hdr)

MeReq(hdr) ==
    LET gate == authMiddleware(hdr)
    IN \/ Denied("me", hdr, gate)
       \/ /\ gate.status = 200
          /\ Answer("me", hdr, 200, [user |-> gate.user, role |-> RoleOf(gate.user)])

Me == \E hdr \in AnyHeaders : MeReq(hdr)

\* INSERT OR REPLACE: the row that holds the email is replaced
InsertDefaultAdmin_Replace(rows, id) ==
    {u \in rows : u.email # ADMIN_EMAIL} \cup {DefaultAdmin(id)}

\* INSERT OR IGNORE INTO users: email is UNIQUE, a row that holds it stays as it is
InsertDefaultAdmin(rows, id) ==
    IF \E u \in rows : u.email = ADMIN_EMAIL THEN rows ELSE rows \cup {DefaultAdmin(id)}

\* GET /api/init on the initialised database: every CREATE ... IF NOT EXISTS is a no-op;
\* limit bounds the ids the insert may use
ApiInitWithin(limit) ==
    /\ sessions' = {s \in sessions : ~(s.expires_at < now)}
    /\ UserByEmail(ADMIN_EMAIL) = {} => userSeq < limit
    /\ userSeq' = IF UserByEmail(ADMIN_EMAIL) = {} THEN userSeq + 1 ELSE userSeq
    /\ users' = InsertDefaultAdmin(users, userSeq + 1)
    /\ resp' = Reply("init", NoHeader, 200, "initialised")
    /\ UNCHANGED <<selections, eventTables, now, issued, loggedOut, restarted, page, calls>>

ApiInit == ApiInitWithin(MaxUsers)

\* ------------------------------------------------------------ selections
\* the WHERE clause dropped
SelectionsOf_All(rows, uid) == rows

\* SELECT ... FROM selections WHERE user_id = ?
SelectionsOf(rows, uid) == {s \in rows : s.user_id = uid}
SelectionAt(rows, uid, vp) == {s \in rows : s.user_id = uid /\ s.viewpoint = vp}

\* a plain INSERT: the conflict clause is missing
UpsertSelection_Insert(rows, uid, vp, step, memo) ==
    rows \cup {[user_id |-> uid, viewpoint |-> vp, step |-> step, memo |-> memo]}

\* INSERT ... ON CONFLICT(user_id, viewpoint) DO UPDATE SET step, memo
UpsertSelection(rows, uid, vp, step, memo) ==
    IF SelectionAt(rows, uid, vp) # {}
    THEN {IF s.user_id = uid /\ s.viewpoint = vp
          THEN [s EXCEPT !.step = step, !.memo = memo] ELSE s : s \in rows}
    ELSE rows \cup {[user_id |-> uid, viewpoint |-> vp, step |-> step, memo |-> memo]}

\* the viewpoint condition inverted
DeleteSelectionRows_Inverted(rows, uid, vp) ==
    {s \in rows : ~(s.user_id = uid /\ s.viewpoint # vp)}

\* DELETE FROM selections WHERE user_id = ? AND viewpoint = ?
DeleteSelectionRows(rows, uid, vp) ==
    {s \in rows : ~(s.user_id = uid /\ s.viewpoint = vp)}

\* the upper limit off by one: step > 5
BadSelection_OffByOne(viewpoint, step) ==
    Falsy(viewpoint) \/ Falsy(step) \/ step.v < MIN_STEP \/ step.v > MAX_STEP + 1

\* !viewpoint || !step || step < 1 || step > 4
BadSelection(viewpoint, step) ==
    Falsy(viewpoint) \/ Falsy(step) \/ step.v < MIN_STEP \/ step.v > MAX_STEP

\* the includes test dropped
IsValidViewpoint_Any(viewpoint) == TRUE

\* validViewpoints.includes(viewpoint)
IsValidViewpoint(viewpoint) == viewpoint.t = "string" /\ viewpoint.v \in validViewpoints

\* CHECK(step BETWEEN 1 AND 4) of the selections table
StepCheck(step) == step >= 1 /\ step <= 4

GetSelectionsReq(hdr) ==
    LET gate == authMiddleware(hdr)
    IN \/ Denied("getSelections", hdr, gate)
       \/ /\ gate.status = 200
          /\ Answer("getSelections", hdr, 200, SelectionsOf(selections, gate.user))

GetSelections == \E hdr \in Headers : GetSelectionsReq(hdr)

SetSelectionReq(hdr, viewpoint, step, memo) ==
    LET gate == authMiddleware(hdr)
    IN \/ Denied("setSelection", hdr, gate)
       \/ /\ gate.status = 200
          /\ IF BadSelection(viewpoint, step)
             THEN Answer("setSelection", hdr, 400, "invalid selection")
             ELSE IF ~IsValidViewpoint(viewpoint)
             THEN Answer("setSelection", hdr, 400, "invalid viewpoint")
             ELSE IF ~StepCheck(step.v)
             THEN Answer("setSelection", hdr, 500, "Internal Server Error")
             ELSE /\ selections' = UpsertSelection(selections, gate.user, viewpoint.v,
                                                   step.v, OrEmpty(memo))
                  /\ resp' = Reply("setSelection", hdr, 200, "success")
                  /\ UNCHANGED <<users, userSeq, sessions, eventTables, now, issued,
                                 loggedOut, restarted, page, calls>>

SetSelection ==
    \E hdr \in Headers, b \in SetInputs : SetSelectionReq(hdr, b.viewpoint, b.step, b.memo)

DeleteSelectionReq(hdr, viewpoint) ==
    LET gate == authMiddleware(hdr)
    IN \/ Denied("deleteSelection", hdr, gate)
       \/ /\ gate.status = 200
          /\ selections' = DeleteSelectionRows(selections, gate.user, viewpoint)
          /\ resp' = Reply("deleteSelection", hdr, 200, "success")
          /\ UNCHANGED <<users, userSeq, sessions, eventTables, now, issued, loggedOut, restarted, page, calls>>

DeleteSelection ==
    \E hdr \in Headers, viewpoint \in ViewpointParams :
        DeleteSelectionReq(hdr, viewpoint)

\* ----------------------------------------------------------------- admin
\* s.viewpoint || ':' || s.step || ':' || COALESCE(s.memo,'')
SelectionText(s) == <<s.viewpoint, COLON, Digits[s.step], COLON>> \o Chars(s.memo)

\* GROUP_CONCAT(..., '||') over the selections LEFT JOINed to user uid, rows taken in the
\* order of vps; NULL (here the empty text) when the user has none
RECURSIVE ConcatSelections(_, _)
ConcatSelections(uid, i) ==
    IF i > Len(vps) THEN <<>>
    ELSE LET sel == SelectionAt(selections, uid, vps[i])
             rest == ConcatSelections(uid, i + 1)
         IN IF sel = {} THEN rest
            ELSE << SelectionText(CHOOSE s \in sel : TRUE) >> \o rest

selections_raw(uid) == JoinText(ConcatSelections(uid, 1), <<PIPE, PIPE>>)

\* parseInt of a text: its leading digit, NaN without one
parseInt(text) ==
    IF text # <<>> /\ \E d \in 1..Len(Digits) : Digits[d] = Head(text)
    THEN Num(CHOOSE d \in 1..Len(Digits) : Digits[d] = Head(text))
    ELSE [t |-> "NaN"]

\* the loop over selections_raw.split('||'): selections[vp] = { step, memo } for each
\* part whose first two ':' fields are not empty
RECURSIVE ParseSelections(_, _)
ParseSelections(parts, acc) ==
    IF parts = <<>> THEN acc
    ELSE LET fields == SplitFrom(Head(parts), <<COLON>>, <<>>)
         IN IF Len(fields) >= 2 /\ fields[1] # <<>> /\ fields[2] # <<>>
            THEN ParseSelections(Tail(parts),
                    {e \in acc : e.viewpoint # fields[1]}
                        \cup {[viewpoint |-> fields[1], step |-> parseInt(fields[2]),
                                memo |-> JoinText(SubSeq(fields, 3, Len(fields)), <<COLON>>)]})
            ELSE ParseSelections(Tail(parts), acc)

\* GET /api/admin/members: one entry per user with its parsed selections
MemberList ==
    {[id |-> u.id, role |-> u.role,
      selections |-> IF selections_raw(u.id) = <<>> THEN {}
                     ELSE ParseSelections(SplitFrom(selections_raw(u.id), <<PIPE, PIPE>>, <<>>), {})]
        : u \in users}

AdminMembersReq(hdr) ==
    LET gate == adminGate(hdr)
    IN \/ Denied("adminMembers", hdr, gate)
       \/ /\ gate.status = 200
          /\ Answer("adminMembers", hdr, 200, MemberList)

AdminMembers == \E hdr \in Headers : AdminMembersReq(hdr)

\* the labels of the export, in Latin letters
stepLabels == <<"STEP1", "STEP2", "STEP3", "STEP4">>
ExportHeaders ==
    << <<"name">>, <<"school">>, <<"email">>, <<"role">>, <<"created_at">> >>
        \o [i \in 1..(2 * Len(vps)) |->
               <<vps[(i + 1) \div 2], IF i % 2 = 1 THEN "(step)" ELSE "(memo)">>]

\* the row of member m: five account fields, then step label and memo per viewpoint
ExportRow(m) ==
    << Chars(m.name), Chars(m.school), Chars(m.email),
       <<IF m.role = "admin" THEN "kanrisha" ELSE "kaiin">>, <<"created_at">> >>
        \o [i \in 1..(2 * Len(vps)) |->
               LET sel == SelectionAt(selections, m.id, vps[(i + 1) \div 2])
               IN IF sel = {} THEN (IF i % 2 = 1 THEN <<"misentaku">> ELSE <<>>)
                  ELSE LET s == CHOOSE r \in sel : TRUE
                       IN IF i % 2 = 1 THEN <<stepLabels[s.step]>> ELSE Chars(s.memo)]

\* csv: the byte order mark, the header line, one line per row of SELECT ... FROM users
RECURSIVE ExportLines(_)
ExportLines(ids) ==
    IF ids = <<>> THEN <<>>
    ELSE CsvRow(ExportRow(CHOOSE u \in users : u.id = Head(ids))) \o ExportLines(Tail(ids))

ExportCsv == <<BOM>> \o CsvHeader(ExportHeaders) \o ExportLines(IdsInOrder({u.id : u \in users}))

\* GET /api/admin/export
AdminExportReq(hdr) ==
    LET gate == adminGate(hdr)
    IN \/ Denied("adminExport", hdr, gate)
       \/ /\ gate.status = 200
          /\ Answer("adminExport", hdr, 200, ExportCsv)

AdminExport == \E hdr \in Headers : AdminExportReq(hdr)

\* the includes test dropped: any string is taken
IsValidRole_Any(role) == role.t = "string"

\* ['member', 'admin'].includes(role)
IsValidRole(role) == role.t = "string" /\ role.v \in validRoles

RoleChangeReq(hdr, id, role) ==
    LET gate == adminGate(hdr)
    IN \/ Denied("roleChange", hdr, gate)
       \/ /\ gate.status = 200
          /\ IF ~IsValidRole(role)
             THEN Answer("roleChange", hdr, 400, "invalid role")
             ELSE /\ users' = {IF u.id = id THEN [u EXCEPT !.role = role.v] ELSE u : u \in users}
                  /\ resp' = Reply("roleChange", hdr, 200, "success")
                  /\ UNCHANGED <<userSeq, sessions, selections, eventTables, now, issued,
                                 loggedOut, restarted, page, calls>>

RoleChange == \E hdr \in Headers, id \in UserIds, role \in RoleInputs : RoleChangeReq(hdr, id, role)

\* events.created_by REFERENCES users(id) has no ON DELETE action: the delete of a
\* user some event names fails with a foreign key error
UserDeleteBlocked(id) == \E e \in events : e.created_by = id /\ UserById(id) # {}

\* no ON DELETE CASCADE: the rows stay
CascadeUser_None(rows, id) == rows

\* the rows ON DELETE CASCADE removes with user id
CascadeUser(rows, id) == {r \in rows : r.user_id # id}

\* the self check dropped
IsSelf_Never(userId, id) == FALSE

\* user.id === id
IsSelf(userId, id) == userId = id

MemberDeleteReq(hdr, id) ==
    LET gate == adminGate(hdr)
    IN \/ Denied("memberDelete", hdr, gate)
       \/ /\ gate.status = 200
          /\ IF IsSelf(gate.user, id)
             THEN Answer("memberDelete", hdr, 400, "cannot delete yourself")
             ELSE IF UserDeleteBlocked(id)
             THEN \* the first statement ran, the second threw
                  /\ selections' = CascadeUser(selections, id)
                  /\ resp' = Reply("memberDelete", hdr, 500, "Internal Server Error")
                  /\ UNCHANGED <<users, userSeq, sessions, eventTables, now, issued,
                                 loggedOut, restarted, page, calls>>
             ELSE /\ selections' = CascadeUser(CascadeUser(selections, id), id)
                  /\ users' = {u \in users : u.id # id}
                  /\ sessions' = CascadeUser(sessions, id)
                  /\ attendances' = CascadeUser(attendances, id)
                  /\ survey_answers' = CascadeUser(survey_answers, id)
                  /\ custom_answers' = CascadeUser(custom_answers, id)
                  /\ resp' = Reply("memberDelete", hdr, 200, "success")
                  /\ UNCHANGED <<userSeq, events, eventSeq, survey_questions, questionSeq,
                                 now, issued, loggedOut, restarted, page, calls>>

MemberDelete == \E hdr \in Headers, id \in UserIds : MemberDeleteReq(hdr, id)

\* ---------------------------------------------------------------- events
EventById(id) == {e \in events : e.id = id}
\* SELECT * FROM events WHERE event_code = ? AND is_active = 1
EventByCode(code) == {e \in events : e.event_code = code /\ e.is_active = 1}

\* CHECK(question_type IN ('text','radio','rating'))
QuestionTypeCheck(type) == type \in {"text", "radio", "rating"}

\* the survey_questions rows the loop inserts before a statement throws, if one does
RECURSIVE InsertQuestions(_, _, _, _)
InsertQuestions(rows, seq, eventId, questions) ==
    IF questions = <<>> THEN [rows |-> rows, seq |-> seq, threw |-> FALSE]
    ELSE IF ~QuestionTypeCheck(Head(questions))
    THEN [rows |-> rows, seq |-> seq, threw |-> TRUE]
    ELSE InsertQuestions(rows \cup {[id |-> seq + 1, event_id |-> eventId,
                                     question_type |-> Head(questions)]},
                         seq + 1, eventId, Tail(questions))

\* generateEventCode: 8 random characters, a code no event has had; named after the id
CreateEventWithin(limit, hdr, title, custom_questions) ==
    LET gate == adminGate(hdr)
    IN \/ Denied("createEvent", hdr, gate)
       \/ /\ gate.status = 200
          /\ IF Falsy(title)
             THEN Answer("createEvent", hdr, 400, "title and date required")
             ELSE LET eventId == eventSeq + 1
                      ins == InsertQuestions(survey_questions, questionSeq, eventId,
                                             custom_questions)
                  IN /\ eventSeq < limit
                     /\ eventSeq' = eventId
                     /\ events' = events \cup {[id |-> eventId, event_code |-> eventId,
                                                is_active |-> 1, created_by |-> gate.user]}
                     /\ survey_questions' = ins.rows
                     /\ questionSeq' = ins.seq
                     /\ resp' = IF ins.threw
                                THEN Reply("createEvent", hdr, 500, "Internal Server Error")
                                ELSE Reply("createEvent", hdr, 200, [id |-> eventId])
                     /\ UNCHANGED <<users, userSeq, sessions, selections, attendances,
                                    survey_answers, custom_answers, now, issued, loggedOut, restarted, page, calls>>

CreateEventReq(hdr, title, custom_questions) ==
    CreateEventWithin(MaxEvents, hdr, title, custom_questions)

CreateEvent ==
    \E hdr \in Headers, title \in {Str("t"), Undef}, custom_questions \in QuestionInputs :
        CreateEventReq(hdr, title, custom_questions)

\* GET /api/admin/events: every event with its attendance and survey counts
AdminEventsReq(hdr) ==
    LET gate == adminGate(hdr)
    IN \/ Denied("adminEvents", hdr, gate)
       \/ /\ gate.status = 200
          /\ Answer("adminEvents", hdr, 200,
                    {[id |-> e.id,
                      attendance_count |-> Cardinality({a \in attendances : a.event_id = e.id}),
                      survey_count |-> Cardinality({a \in survey_answers : a.event_id = e.id})]
                     : e \in events})

AdminEvents == \E hdr \in Headers : AdminEventsReq(hdr)

\* GET /api/admin/events/:id
AdminEventGetReq(hdr, id) ==
    LET gate == adminGate(hdr)
    IN \/ Denied("adminEventGet", hdr, gate)
       \/ /\ gate.status = 200
          /\ IF EventById(id) = {}
             THEN Answer("adminEventGet", hdr, 404, "event not found")
             ELSE Answer("adminEventGet", hdr, 200,
                         {a.user_id : a \in {x \in attendances : x.event_id = id}})

AdminEventGet == \E hdr \in Headers, id \in EventIds : AdminEventGetReq(hdr, id)

\* SELECT * FROM survey_questions WHERE event_id = ? ORDER BY sort_order
QuestionsOf(id) == IdsInOrder({q.id : q \in {x \in survey_questions : x.event_id = id}})

\* the header of the per-event export: five labels, then each question_text
EventExportHeaders(id) ==
    << <<"name">>, <<"email">>, <<"attended_at">>, <<"satisfaction">>, <<"comment">> >>
        \o [i \in 1..Len(QuestionsOf(id)) |-> <<"question_text">>]

\* every answer stands for every user
AnswerFor_Any(answers, userId) == answers

\* ansMap.get(att.user_id), caMap.get(att.user_id)
AnswerFor(answers, userId) == {a \in answers : a.user_id = userId}

\* the row of attendance att in the export of event id
EventExportRow(att, id) ==
    LET user == CHOOSE u \in users : u.id = att.user_id
        ans == AnswerFor({a \in survey_answers : a.event_id = id}, att.user_id)
        ca == AnswerFor({a \in custom_answers : a.event_id = id}, att.user_id)
        questions == QuestionsOf(id)
    IN << Chars(user.name), Chars(user.email), <<TimeText[att.attended_at + 1]>>,
          IF ans = {} THEN <<>>
          ELSE LET a == CHOOSE x \in ans : TRUE
               IN IF a.satisfaction = 0 THEN <<"null">> ELSE <<Digits[a.satisfaction]>>,
          IF ans = {} THEN <<>> ELSE Chars((CHOOSE x \in ans : TRUE).comment) >>
        \o [i \in 1..Len(questions) |->
               LET mine == {x \in ca : x.question_id = questions[i]}
               IN IF mine = {} THEN <<>> ELSE Chars((CHOOSE x \in mine : TRUE).answer_text)]

\* one line per row of SELECT ... FROM attendances a JOIN users u ... WHERE a.event_id = ?
RECURSIVE EventExportLines(_, _)
EventExportLines(userIds, id) ==
    IF userIds = <<>> THEN <<>>
    ELSE CsvRow(EventExportRow(CHOOSE a \in attendances :
                                   a.event_id = id /\ a.user_id = Head(userIds), id))
            \o EventExportLines(Tail(userIds), id)

EventExportCsv(id) ==
    <<BOM>> \o CsvHeader(EventExportHeaders(id))
        \o EventExportLines(IdsInOrder({a.user_id : a \in {x \in attendances : x.event_id = id}}),
                            id)

\* GET /api/admin/events/:id/export
AdminEventExportReq(hdr, id) ==
    LET gate == adminGate(hdr)
    IN \/ Denied("adminEventExport", hdr, gate)
       \/ /\ gate.status = 200
          /\ IF EventById(id) = {}
             THEN Answer("adminEventExport", hdr, 404, "event not found")
             ELSE Answer("adminEventExport", hdr, 200, EventExportCsv(id))

AdminEventExport == \E hdr \in Headers, id \in EventIds : AdminEventExportReq(hdr, id)

\* the delete matches no row
CascadeEvent_None(rows, id) == rows

\* the rows ON DELETE CASCADE removes with event id
CascadeEvent(rows, id) == {r \in rows : r.event_id # id}
\* the custom_answers ON DELETE CASCADE removes with the questions of event id
CascadeQuestions(rows, id) ==
    {r \in rows : \A q \in survey_questions : q.event_id = id => r.question_id # q.id}

\* DELETE /api/admin/events/:id: five deletes, none of which can fail
EventDeleteReq(hdr, id) ==
    LET gate == adminGate(hdr)
    IN \/ Denied("eventDelete", hdr, gate)
       \/ /\ gate.status = 200
          /\ custom_answers' = CascadeQuestions(CascadeEvent(custom_answers, id), id)
          /\ survey_answers' = CascadeEvent(survey_answers, id)
          /\ survey_questions' = CascadeEvent(survey_questions, id)
          /\ attendances' = CascadeEvent(attendances, id)
          /\ events' = {e \in events : e.id # id}
          /\ resp' = Reply("eventDelete", hdr, 200, "success")
          /\ UNCHANGED <<users, userSeq, sessions, selections, eventSeq, questionSeq,
                         now, issued, loggedOut, restarted, page, calls>>

EventDelete == \E hdr \in Headers, id \in EventIds : EventDeleteReq(hdr, id)

\* INSERT OR REPLACE: the stored row gives way to the new one
InsertAttendance_Replace(rows, eventId, uid) ==
    {a \in rows : ~(a.event_id = eventId /\ a.user_id = uid)}
        \cup {[event_id |-> eventId, user_id |-> uid, attended_at |-> now]}

\* INSERT OR IGNORE INTO attendances: UNIQUE(event_id, user_id)
InsertAttendance(rows, eventId, uid) ==
    IF \E a \in rows : a.event_id = eventId /\ a.user_id = uid
    THEN rows
    ELSE rows \cup {[event_id |-> eventId, user_id |-> uid, attended_at |-> now]}

AttendReq(hdr, code) ==
    LET gate == authMiddleware(hdr)
    IN \/ Denied("attend", hdr, gate)
       \/ /\ gate.status = 200
          /\ IF EventByCode(code) = {}
             THEN Answer("attend", hdr, 404, "event not found")
             ELSE LET event == CHOOSE e \in EventByCode(code) : TRUE
                  IN /\ attendances' = InsertAttendance(attendances, event.id, gate.user)
                     /\ resp' = Reply("attend", hdr, 200, "success")
                     /\ UNCHANGED <<users, userSeq, sessions, selections, events, eventSeq,
                                    survey_questions, questionSeq, survey_answers,
                                    custom_answers, now, issued, loggedOut, restarted, page, calls>>

Attend == \E hdr \in Headers, code \in EventIds : AttendReq(hdr, code)

\* a plain INSERT: the conflict clause is missing
UpsertSurveyAnswer_Insert(rows, eventId, uid, satisfaction, comment) ==
    rows \cup {[event_id |-> eventId, user_id |-> uid, satisfaction |-> satisfaction,
                comment |-> comment]}

\* INSERT INTO survey_answers ... ON CONFLICT(event_id, user_id) DO UPDATE
UpsertSurveyAnswer(rows, eventId, uid, satisfaction, comment) ==
    {a \in rows : ~(a.event_id = eventId /\ a.user_id = uid)}
        \cup {[event_id |-> eventId, user_id |-> uid, satisfaction |-> satisfaction,
                comment |-> comment]}

\* INSERT INTO custom_answers ... ON CONFLICT(event_id, user_id, question_id) DO UPDATE
UpsertCustomAnswer(rows, eventId, uid, questionId, text) ==
    {a \in rows : ~(a.event_id = eventId /\ a.user_id = uid /\ a.question_id = questionId)}
        \cup {[event_id |-> eventId, user_id |-> uid, question_id |-> questionId,
                answer_text |-> text]}

\* satisfaction || null under CHECK(satisfaction BETWEEN 1 AND 5): NULL passes
SatisfactionCheck(satisfaction) ==
    Falsy(satisfaction) \/ (satisfaction.v >= 1 /\ satisfaction.v <= 5)

\* the custom_answers rows the loop upserts before a statement throws, if one does:
\* question_id REFERENCES survey_questions(id)
RECURSIVE UpsertCustomAnswers(_, _, _, _)
UpsertCustomAnswers(rows, eventId, uid, answers) ==
    IF answers = <<>> THEN [rows |-> rows, threw |-> FALSE]
    ELSE IF ~\E q \in survey_questions : q.id = Head(answers).question_id
    THEN [rows |-> rows, threw |-> TRUE]
    ELSE UpsertCustomAnswers(UpsertCustomAnswer(rows, eventId, uid, Head(answers).question_id,
                                                OrEmpty(Head(answers).answer_text)),
                             eventId, uid, Tail(answers))

SurveyReq(hdr, code, satisfaction, comment, custom) ==
    LET gate == authMiddleware(hdr)
    IN \/ Denied("survey", hdr, gate)
       \/ /\ gate.status = 200
          /\ IF EventByCode(code) = {}
             THEN Answer("survey", hdr, 404, "event not found")
             ELSE IF ~SatisfactionCheck(satisfaction)
             THEN Answer("survey", hdr, 500, "Internal Server Error")
             ELSE LET event == CHOOSE e \in EventByCode(code) : TRUE
                      ups == UpsertCustomAnswers(custom_answers, event.id, gate.user, custom)
                  IN /\ survey_answers' = UpsertSurveyAnswer(survey_answers, event.id, gate.user,
                                             IF Falsy(satisfaction) THEN 0 ELSE satisfaction.v,
                                             OrEmpty(comment))
                     /\ custom_answers' = ups.rows
                     /\ resp' = IF ups.threw
                                THEN Reply("survey", hdr, 500, "Internal Server Error")
                                ELSE Reply("survey", hdr, 200, "success")
                     /\ UNCHANGED <<users, userSeq, sessions, selections, events, eventSeq,
                                    survey_questions, questionSeq, attendances, now,
                                    issued, loggedOut, restarted, page, calls>>

Survey ==
    \E hdr \in Headers, code \in EventIds, satisfaction \in SatisfactionInputs,
       comment \in CommentInputs, custom \in CustomInputs :
        SurveyReq(hdr, code, satisfaction, comment, custom)

Tick ==
    /\ now < MaxNow
    /\ now' = now + 1
    /\ resp' = Reply("none", NoHeader, 0, <<>>)
    /\ UNCHANGED <<db, issued, loggedOut, restarted, page, calls>>

\* a Map in the worker's memory: its entries end with the worker
SessionsAfterRestart_InMemory(rows) == {}

\* the sessions table is in D1: its rows outlive the worker
SessionsAfterRestart(rows) == rows

\* the worker is stopped and started again: the module is evaluated anew (it holds
\* the routes of app and nothing that a request writes), the database is kept
Restart ==
    /\ sessions' = SessionsAfterRestart(sessions)
    /\ restarted' = DOMAIN issued
    /\ resp' = Reply("restart", NoHeader, 0, <<>>)
    /\ UNCHANGED <<dbRest, now, issued, loggedOut, page, calls>>

\* --------------------------------------------------------------- My Page
\* the step cells a user clicks
ClickCells == {<<"lesson_plan", 1>>, <<"lesson_plan", 2>>, <<"research", 1>>}

\* the script of /mypage runs with a token in localStorage: the cells are as served
\* (none selected) and loadSelections() sends its fetch
PageOpen ==
    \E tk \in DOMAIN issued :
        /\ page' = [NoPage EXCEPT !.load = "sent", !.token = tk]
        /\ UNCHANGED <<db, now, issued, loggedOut, restarted, calls, resp>>

\* the fetch of loadSelections reaches the worker: GET /api/selections runs and its
\* response travels back
PageFetch ==
    /\ page.load = "sent"
    /\ LET hdr == Bearer(page.token)
           gate == authMiddleware(hdr)
       IN /\ sessions' = gate.sessions
          /\ resp' = IF gate.status = 200
                     THEN Reply("getSelections", hdr, 200, SelectionsOf(selections, gate.user))
                     ELSE Reply("getSelections", hdr, gate.status, gate.error)
    /\ page' = [page EXCEPT !.load = "answered", !.res = resp']
    /\ UNCHANGED <<dbRest, now, issued, loggedOut, restarted, calls>>

\* loadSelections resumes after its awaits: 401 leaves the page, otherwise every stored
\* row adds 'selected' to its cell
PageLoaded ==
    /\ page.load = "answered"
    /\ page' = IF page.res.status = 401 THEN NoPage
               ELSE [page EXCEPT !.load = "done",
                                 !.selected = @ \cup {<<s.viewpoint, s.step>> : s \in page.res.body}]
    /\ UNCHANGED <<db, now, issued, loggedOut, restarted, calls, resp>>

\* selectCell(td): the other cells of the viewpoint lose 'selected', td toggles it
SelectCell ==
    \E td \in ClickCells :
        /\ page.load # "closed"
        /\ page' = [page EXCEPT !.selected =
                        LET kept == {el \in @ : el[1] # td[1] \/ el = td}
                        IN IF td \in kept THEN kept \ {td} ELSE kept \cup {td}]
        /\ UNCHANGED <<db, now, issued, loggedOut, restarted, calls, resp>>

\* saveSelections(): one POST for every selected cell, one DELETE for every viewpoint
\* without a selected cell, all sent before any is awaited; the memo fields are empty
SaveSelections ==
    /\ page.load # "closed"
    /\ page' = [page EXCEPT !.sent =
                    {[method |-> "POST", viewpoint |-> cell[1], step |-> cell[2]] :
                        cell \in page.selected}
                    \cup {[method |-> "DELETE", viewpoint |-> vp, step |-> 0] :
                            vp \in validViewpoints \ {cell[1] : cell \in page.selected}}]
    /\ UNCHANGED <<db, now, issued, loggedOut, restarted, calls, resp>>

\* ------------------------------------------------- statement by statement
\* A handler awaits every D1 statement, and another request can run in between.
\* A call holds what the handler keeps in local variables across its awaits; pc is the
\* statement it runs next, n tells two calls of equal requests apart.
Call(op, hdr, user, event, body) ==
    [op |-> op, hdr |-> hdr, user |-> user, event |-> event, body |-> body, pc |-> 1,
     n |-> CHOOSE n \in 1..(MaxTokens + 1) : \A c \in calls : c.n # n]

\* a handler ran its middleware and its first statement and now awaits the next one
Started(call) ==
    /\ Cardinality(calls) < MaxTokens
    /\ calls' = calls \cup {call}
    /\ UNCHANGED <<db, now, issued, loggedOut, restarted, page, resp>>

\* a handler returns or throws after its last statement
Returned(call, status, body) ==
    /\ calls' = calls \ {call}
    /\ resp' = Reply(call.op, call.hdr, status, body)
    /\ UNCHANGED <<users, userSeq, sessions, selections, now, issued, loggedOut, restarted, page>>

\* DELETE /api/admin/events/:id up to its first await
BeginEventDelete ==
    \E hdr \in IssuedHeaders, id \in EventIds :
        LET gate == adminGate(hdr)
        IN \/ Denied("eventDelete", hdr, gate)
           \/ gate.status = 200 /\ Started(Call("eventDelete", hdr, gate.user, id, <<>>))

\* one of its five DELETE statements; the last one returns
StepEventDelete ==
    \E call \in calls :
        /\ call.op = "eventDelete"
        /\ custom_answers' =
              IF call.pc \in {1, 5} THEN CascadeEvent(custom_answers, call.event)
              ELSE IF call.pc = 3 THEN CascadeQuestions(custom_answers, call.event)
              ELSE custom_answers
        /\ survey_answers' =
              IF call.pc \in {2, 5} THEN CascadeEvent(survey_answers, call.event)
              ELSE survey_answers
        /\ survey_questions' =
              IF call.pc \in {3, 5} THEN CascadeEvent(survey_questions, call.event)
              ELSE survey_questions
        /\ attendances' =
              IF call.pc \in {4, 5} THEN CascadeEvent(attendances, call.event) ELSE attendances
        /\ events' = IF call.pc = 5 THEN {e \in events : e.id # call.event} ELSE events
        /\ UNCHANGED <<eventSeq, questionSeq>>
        /\ IF call.pc = 5
           THEN Returned(call, 200, "success")
           ELSE /\ calls' = (calls \ {call}) \cup {[call EXCEPT !.pc = @ + 1]}
                /\ UNCHANGED <<users, userSeq, sessions, selections, now, issued, loggedOut,
                               restarted, page, resp>>

\* POST /api/events/:code/attend up to the await of its INSERT: the SELECT has run
BeginAttend ==
    \E hdr \in IssuedHeaders, code \in EventIds :
        LET gate == authMiddleware(hdr)
        IN \/ Denied("attend", hdr, gate)
           \/ /\ gate.status = 200
              /\ IF EventByCode(code) = {}
                 THEN Answer("attend", hdr, 404, "event not found")
                 ELSE Started(Call("attend", hdr, gate.user,
                                   (CHOOSE e \in EventByCode(code) : TRUE).id, <<>>))

\* its INSERT OR IGNORE: the foreign keys event_id and user_id are checked, and a failed
\* check throws
StepAttend ==
    \E call \in calls :
        /\ call.op = "attend"
        /\ UNCHANGED <<events, eventSeq, survey_questions, questionSeq, survey_answers,
                       custom_answers>>
        /\ IF EventById(call.event) = {} \/ UserById(call.user) = {}
           THEN /\ UNCHANGED attendances
                /\ Returned(call, 500, "Internal Server Error")
           ELSE /\ attendances' = InsertAttendance(attendances, call.event, call.user)
                /\ Returned(call, 200, "success")

\* POST /api/events/:code/survey up to the await of its first upsert
BeginSurvey ==
    \E hdr \in IssuedHeaders, code \in EventIds,
       custom \in {<<>>, <<CustomAnswer(1, Str("x"))>>} :
        LET gate == authMiddleware(hdr)
        IN \/ Denied("survey", hdr, gate)
           \/ /\ gate.status = 200
              /\ IF EventByCode(code) = {}
                 THEN Answer("survey", hdr, 404, "event not found")
                 ELSE Started(Call("survey", hdr, gate.user,
                                   (CHOOSE e \in EventByCode(code) : TRUE).id, custom))

\* one of its upserts: survey_answers first (satisfaction 3, comment 'c'), then one
\* custom_answers row for every element of custom_answers; a failed foreign key throws
StepSurvey ==
    \E call \in calls :
        /\ call.op = "survey"
        /\ UNCHANGED <<events, eventSeq, survey_questions, questionSeq, attendances>>
        /\ IF \/ EventById(call.event) = {} \/ UserById(call.user) = {}
              \/ /\ call.pc > 1
                 /\ ~\E q \in survey_questions : q.id = call.body[call.pc - 1].question_id
           THEN /\ UNCHANGED <<survey_answers, custom_answers>>
                /\ Returned(call, 500, "Internal Server Error")
           ELSE /\ IF call.pc = 1
                   THEN /\ survey_answers' = UpsertSurveyAnswer(survey_answers, call.event,
                                                                 call.user, 3, "c")
                        /\ UNCHANGED custom_answers
                   ELSE /\ custom_answers' =
                              UpsertCustomAnswer(custom_answers, call.event, call.user,
                                                 call.body[call.pc - 1].question_id,
                                                 OrEmpty(call.body[call.pc - 1].answer_text))
                        /\ UNCHANGED survey_answers
                /\ IF call.pc > Len(call.body)
                   THEN Returned(call, 200, "success")
                   ELSE /\ calls' = (calls \ {call}) \cup {[call EXCEPT !.pc = @ + 1]}
                        /\ UNCHANGED <<users, userSeq, sessions, selections, now, issued,
                                       loggedOut, restarted, page, resp>>

\* POST /api/auth/register up to the await of its INSERT: the body was validated and
\* the existence check has run
BeginRegister ==
    \E b \in RegisterInputs :
        IF Falsy(b.name) \/ Falsy(b.school) \/ Falsy(b.email) \/ Falsy(b.password)
        THEN Answer("register", NoHeader, 400, "required")
        ELSE IF Len(b.password.v) < MIN_PASSWORD_LENGTH
        THEN Answer("register", NoHeader, 400, "password too short")
        ELSE IF EmailTaken(b.email.v)
        THEN Answer("register", NoHeader, 400, "email already registered")
        ELSE Started(Call("register", NoHeader, 0, 0, b))

\* its INSERT INTO users (email is UNIQUE: a second row with the email throws), then
\* setToken and the response
StepRegister ==
    \E call \in calls :
        /\ call.op = "register"
        /\ IF call.pc = 1
           THEN IF UserByEmail(call.body.email.v) # {}
                THEN /\ calls' = calls \ {call}
                     /\ resp' = Reply("register", NoHeader, 500, "Internal Server Error")
                     /\ UNCHANGED <<db, now, issued, loggedOut, restarted, page>>
                ELSE /\ userSeq < MaxUsers
                     /\ userSeq' = userSeq + 1
                     /\ users' = users \cup {[id |-> userSeq + 1, name |-> call.body.name.v,
                                              email |-> call.body.email.v,
                                              school |-> call.body.school.v,
                                              password_hash |-> hashPassword(call.body.password.v),
                                              role |-> "member"]}
                     /\ calls' = (calls \ {call}) \cup {[call EXCEPT !.pc = 2, !.user = userSeq + 1]}
                     /\ UNCHANGED <<sessions, selections, eventTables, now, issued, loggedOut,
                                    restarted, page, resp>>
           ELSE /\ IssueToken(call.user)
                /\ calls' = calls \ {call}
                /\ resp' = Reply("register", NoHeader, 200,
                                 [token |-> generateToken, user |-> call.user])
                /\ UNCHANGED <<dbRest, now, loggedOut, restarted, page>>

\* ---------------------------------------------------------- specification
Next ==
    \/ Register \/ Login \/ Logout \/ Me \/ ApiInit
    \/ GetSelections \/ SetSelection \/ DeleteSelection
    \/ AdminMembers \/ AdminExport \/ RoleChange \/ MemberDelete
    \/ CreateEvent \/ AdminEvents \/ AdminEventGet \/ AdminEventExport \/ EventDelete
    \/ Attend \/ Survey
    \/ Tick \/ Restart

Spec == Init /\ [][Next]_vars

\* a registration and a login that pass validation
ValidRegister ==
    \E i \in 1..(MaxUsers - 1) :
        RegisterReq(Str("n"), Str("s"), Str(MemberEmails[i]), Str(ADMIN_PASSWORD))
ValidLogin == \E email \in EmailInputs \ {Undef} : LoginReq(email, Str(ADMIN_PASSWORD))

\* accounts: every writer of the users table
SpecRegister == Init /\ [][Register \/ Login \/ ApiInit \/ RoleChange \/ MemberDelete]_vars

\* sessions: every writer of the sessions table, the clock, and a route behind
\* authMiddleware called with any header
SpecAuth ==
    Init /\ [][\/ ValidRegister \/ ValidLogin \/ Logout \/ Me \/ ApiInit \/ MemberDelete
               \/ Tick]_vars

\* selections: every writer of the selections table
SpecSel ==
    Init /\ [][\/ ValidRegister \/ ValidLogin \/ GetSelections \/ SetSelection
               \/ DeleteSelection \/ MemberDelete]_vars

\* the admin gate in front of every admin route
SpecAdmin ==
    Init /\ [][\/ ValidLogin \/ ValidRegister \/ Tick
               \/ AdminMembers \/ AdminExport \/ MemberDelete
               \/ \E hdr \in Headers, id \in UserIds, role \in {Str("member"), Str("admin")} :
                     RoleChangeReq(hdr, id, role)
               \/ \E hdr \in Headers, title \in {Str("t"), Undef} :
                     CreateEventReq(hdr, title, <<>>)
               \/ AdminEvents \/ AdminEventGet \/ AdminEventExport \/ EventDelete]_vars

\* the rows that reference users and events: every writer of a referencing table,
\* called by logged-in clients with well-formed bodies
DataSetSelection == \E hdr \in IssuedHeaders : SetSelectionReq(hdr, Str("lesson_plan"), Num(1), Undef)
DataRoleChange ==
    \E hdr \in IssuedHeaders, id \in UserIds, role \in {Str("member"), Str("admin")} :
        RoleChangeReq(hdr, id, role)
DataMemberDelete == \E hdr \in IssuedHeaders, id \in UserIds : MemberDeleteReq(hdr, id)
DataCreateEvent ==
    \E hdr \in IssuedHeaders, custom_questions \in {<<>>, <<"text">>} :
        CreateEventReq(hdr, Str("t"), custom_questions)
DataEventDelete == \E hdr \in IssuedHeaders, id \in EventIds : EventDeleteReq(hdr, id)
DataAttend == \E hdr \in IssuedHeaders, code \in EventIds : AttendReq(hdr, code)
DataSurvey ==
    \E hdr \in IssuedHeaders, code \in EventIds,
       custom \in {<<>>, <<CustomAnswer(1, Str("x"))>>} :
        SurveyReq(hdr, code, Num(3), Str("c"), custom)

SpecData ==
    Init /\ [][\/ ValidRegister \/ ValidLogin \/ DataSetSelection \/ DataRoleChange
               \/ DataMemberDelete \/ DataCreateEvent \/ DataEventDelete \/ DataAttend
               \/ DataSurvey]_vars

\* the requests that run more than one write statement
SpecWrites ==
    Init /\ [][\/ ValidRegister \/ ValidLogin \/ DataSetSelection \/ DataRoleChange
               \/ DataMemberDelete \/ DataSurvey
               \/ \E hdr \in IssuedHeaders, custom_questions \in QuestionInputs :
                     CreateEventReq(hdr, Str("t"), custom_questions)]_vars

\* the member export: the writers of users and selections, with memos that hold quotes,
\* commas and newlines
DataDeleteSelection == \E hdr \in IssuedHeaders : DeleteSelectionReq(hdr, "lesson_plan")

SpecExport ==
    Init /\ [][\/ ValidRegister \/ ValidLogin \/ DataDeleteSelection \/ DataMemberDelete
               \/ AdminExport
               \/ \E hdr \in IssuedHeaders, viewpoint \in {Str("lesson_plan"), Str("research")},
                     memo \in {Undef, Str("\"\n\""), Str("c,\"d")} :
                     SetSelectionReq(hdr, viewpoint, Num(1), memo)]_vars

\* the member list: memos that hold the separators of selections_raw
SpecMembers ==
    Init /\ [][\/ ValidRegister \/ ValidLogin \/ DataDeleteSelection \/ DataMemberDelete
               \/ AdminMembers
               \/ \E hdr \in IssuedHeaders, viewpoint \in {Str("lesson_plan"), Str("research")},
                     b \in {[step |-> Num(1), memo |-> Undef],
                            [step |-> Num(4), memo |-> Str("a:b")],
                            [step |-> Num(2), memo |-> Str("a||b")]} :
                     SetSelectionReq(hdr, viewpoint, b.step, b.memo)]_vars

\* the per-event export: two events with one question each, two kinds of survey body
ExportEventIds == 1..MaxExportEvents
SurveyBodies ==
    {[satisfaction |-> Num(3), comment |-> Str("c"),
      custom_answers |-> <<CustomAnswer(1, Str("x"))>>],
     [satisfaction |-> Undef, comment |-> Str("c,\"d"), custom_answers |-> <<>>]}
EventExportCreateEvent ==
    \E hdr \in IssuedHeaders : CreateEventWithin(MaxExportEvents, hdr, Str("t"), <<"text">>)

SpecEventExport ==
    Init /\ [][\/ ValidRegister \/ ValidLogin \/ EventExportCreateEvent
               \/ \E hdr \in IssuedHeaders, code \in ExportEventIds : AttendReq(hdr, code)
               \/ \E hdr \in IssuedHeaders, code \in ExportEventIds, b \in SurveyBodies :
                     SurveyReq(hdr, code, b.satisfaction, b.comment, b.custom_answers)
               \/ \E hdr \in IssuedHeaders, id \in ExportEventIds :
                     AdminEventExportReq(hdr, id)]_vars

\* attendance: every writer of the attendances table, and the clock
SpecAttend ==
    Init /\ [][\/ ValidRegister \/ ValidLogin \/ DataCreateEvent \/ DataAttend
               \/ DataEventDelete \/ DataMemberDelete \/ Tick]_vars

\* surveys: every writer of survey_answers and custom_answers; a body may answer a
\* question twice
ResubmitBodies ==
    SurveyBodies
        \cup {[satisfaction |-> Num(5), comment |-> Undef,
                custom_answers |-> <<CustomAnswer(1, Str("x")), CustomAnswer(1, Str("y"))>>],
               [satisfaction |-> Num(3), comment |-> Str("c"),
                custom_answers |-> <<CustomAnswer(1, Undef)>>]}

SpecSurvey ==
    Init /\ [][\/ ValidRegister \/ ValidLogin \/ EventExportCreateEvent \/ DataMemberDelete
               \/ \E hdr \in IssuedHeaders, code \in ExportEventIds, b \in ResubmitBodies :
                     SurveyReq(hdr, code, b.satisfaction, b.comment, b.custom_answers)
               \/ \E hdr \in IssuedHeaders, id \in ExportEventIds :
                     EventDeleteReq(hdr, id)]_vars

\* sessions across restarts of the worker
SpecRestart ==
    Init /\ [][\/ ValidRegister \/ ValidLogin \/ DataMemberDelete \/ Tick \/ Restart
               \/ \E hdr \in IssuedHeaders : LogoutReq(hdr)
               \/ \E hdr \in IssuedHeaders : MeReq(hdr)]_vars

\* initialisation: GET /api/init on a populated database, and after the default admin
\* was deleted by another admin (the insert then takes the next id)
SpecInit ==
    Init /\ [][\/ ValidRegister \/ ValidLogin \/ DataRoleChange \/ DataMemberDelete
               \/ DataSetSelection \/ DataCreateEvent \/ Tick
               \/ ApiInitWithin(MaxUsers + 1)]_vars

\* My Page: one tab, its clicks and saves, and the worker answering the requests the
\* save sent, in any order
SpecPage ==
    Init /\ [][\/ ValidRegister \/ ValidLogin
               \/ PageOpen \/ PageFetch \/ PageLoaded \/ SelectCell \/ SaveSelections
               \/ \E r \in page.sent :
                     /\ r.method = "POST"
                     /\ SetSelectionReq(Bearer(page.token), Str(r.viewpoint), Num(r.step), Str(""))
               \/ \E r \in page.sent :
                     /\ r.method = "DELETE"
                     /\ DeleteSelectionReq(Bearer(page.token), r.viewpoint)]_vars

\* event deletion, attend and survey running statement by statement, at most MaxTokens
\* of them at a time; every event has the question the survey bodies answer
SpecRace ==
    Init /\ [][\/ ValidRegister \/ ValidLogin
               \/ \E hdr \in IssuedHeaders : CreateEventReq(hdr, Str("t"), <<"text">>)
               \/ BeginEventDelete \/ StepEventDelete
               \/ BeginAttend \/ StepAttend \/ BeginSurvey \/ StepSurvey]_vars

\* registrations running statement by statement, at most MaxTokens of them at a time
SpecRegisterRace == Init /\ [][BeginRegister \/ StepRegister \/ Logout \/ Tick]_vars

\* ================================================================ claims
\* the routes behind authMiddleware
AuthOps == {"me", "getSelections", "setSelection", "deleteSelection", "adminMembers",
            "adminExport", "roleChange", "memberDelete", "createEvent", "adminEvents",
            "adminEventGet", "adminEventExport", "eventDelete", "attend", "survey"}
\* the routes behind adminMiddleware as well
AdminOps == {"adminMembers", "adminExport", "roleChange", "memberDelete", "createEvent",
             "adminEvents", "adminEventGet", "adminEventExport", "eventDelete"}

EmailsUnique == \A u1 \in users, u2 \in users : u1.email = u2.email => u1 = u2

\* C1: a register request whose email belongs to a stored user fails with status 400
\* (the duplicate-email message when the body is otherwise valid), adds no user row,
\* issues no token and leaves the users table as it was; no two users share an email.
C1_DuplicateEmailRejected ==
    /\ []EmailsUnique
    /\ [][\A b \in RegisterInputs :
            (/\ resp'.op = "register"
             /\ RegisterReq(b.name, b.school, b.email, b.password)
             /\ ~Falsy(b.email)
             /\ UserByEmail(b.email.v) # {})
            => /\ resp'.status = 400
               /\ (~Falsy(b.name) /\ ~Falsy(b.school) /\ ~Falsy(b.password)
                   /\ Len(b.password.v) >= MIN_PASSWORD_LENGTH
                   => resp'.body = "email already registered")
               /\ users' = users /\ userSeq' = userSeq
               /\ sessions' = sessions /\ issued' = issued]_vars

C1_Witness ==
    /\ resp.op = "register" /\ resp.status = 400 /\ resp.body = "email already registered"
    /\ Cardinality(users) = 2

\* C2: once a logout request has presented token t, every later request that reaches
\* authMiddleware with t is answered 401.
C2_LoggedOutTokenRejected ==
    (resp.op \in AuthOps /\ resp.hdr.kind = "bearer" /\ resp.hdr.token \in loggedOut)
        => resp.status = 401

\* a token that would still be valid (issued, unexpired, user stored) is refused
C2_Witness ==
    /\ resp.op = "me" /\ resp.status = 401 /\ resp.hdr.kind = "bearer"
    /\ resp.hdr.token \in loggedOut /\ resp.hdr.token \in DOMAIN issued
    /\ now <= issued[resp.hdr.token].at + TTL_WEEKS
    /\ UserById(issued[resp.hdr.token].user) # {}

\* the conditions under which a presented header is to be accepted
ShouldAccept(hdr) ==
    /\ hdr.kind = "bearer"
    /\ hdr.token \in DOMAIN issued
    /\ hdr.token \notin loggedOut
    /\ now <= issued[hdr.token].at + TTL_WEEKS
    /\ UserById(issued[hdr.token].user) # {}

\* C3: authMiddleware lets a request through exactly when its header is 'Bearer t' for
\* a token t that register or login issued, no logout deleted, is at most 7 days old
\* and whose user is stored; every other request gets 401, and a token presented after
\* its expiry has no session row left.
C3_TokenAcceptedExactlyWhenValid ==
    resp.op \in AuthOps =>
        /\ (resp.status # 401) <=> ShouldAccept(resp.hdr)
        /\ (/\ resp.hdr.kind = "bearer" /\ resp.hdr.token \in DOMAIN issued
            /\ now > issued[resp.hdr.token].at + TTL_WEEKS)
           => SessionByToken(resp.hdr.token) = {}

\* a token accepted on the last day of its life
C3_Witness ==
    /\ resp.op = "me" /\ resp.status = 200
    /\ now = issued[resp.hdr.token].at + TTL_WEEKS
\* the header names a stored, unexpired session of a stored user
ValidSession(hdr) ==
    /\ hdr.kind = "bearer"
    /\ \E s \in sessions : s.token = hdr.token /\ s.expires_at >= now /\ UserById(s.user_id) # {}
CallerOf(hdr) == (CHOOSE s \in sessions : s.token = hdr.token).user_id

\* who gets through the two gates of an admin route, and with which status
AdminGateStatuses ==
    /\ ~ValidSession(resp'.hdr) => resp'.status = 401
    /\ (ValidSession(resp'.hdr) /\ RoleOf(CallerOf(resp'.hdr)) # "admin") => resp'.status = 403
    /\ resp'.status \notin {401, 403}
          => (ValidSession(resp'.hdr) /\ RoleOf(CallerOf(resp'.hdr)) = "admin")

\* C4 as stated: a request to an admin route runs its handler only with a valid token
\* of a current admin, gets 401 when unauthenticated and 403 when not admin, and a
\* 401 or 403 leaves every table unchanged.
C4_DeniedAdminRequestChangesNothing ==
    [][resp'.op \in AdminOps =>
          /\ AdminGateStatuses
          /\ resp'.status \in {401, 403} => UNCHANGED db]_vars

\* C4 as amended: as above, but a 401 may delete the presented token's expired session
\* row; every other table is unchanged.
C4_DeniedAdminRequestOnlyDropsExpiredSession ==
    [][resp'.op \in AdminOps =>
          /\ AdminGateStatuses
          /\ resp'.status \in {401, 403} =>
                /\ UNCHANGED dbRest
                /\ sessions' = {s \in sessions :
                                  ~(s.token = resp'.hdr.token /\ s.expires_at < now)}]_vars

\* an authenticated member stopped by the role check
C4_Witness ==
    /\ resp.op \in AdminOps /\ resp.status = 403
    /\ ValidSession(resp.hdr) /\ RoleOf(CallerOf(resp.hdr)) = "member"

SelectionsUnique ==
    \A s1 \in selections, s2 \in selections :
        (s1.user_id = s2.user_id /\ s1.viewpoint = s2.viewpoint) => s1 = s2

\* C5: there is at most one selection row per (user_id, viewpoint), and after a
\* successful set request the row of the caller and viewpoint holds exactly the
\* request's step and memo.
C5_SetOverwrites ==
    /\ []SelectionsUnique
    /\ [][\A b \in SetInputs :
            (/\ resp'.op = "setSelection" /\ resp'.status = 200
             /\ SetSelectionReq(resp'.hdr, b.viewpoint, b.step, b.memo))
            => SelectionAt(selections', CallerOf(resp'.hdr), b.viewpoint.v)
                  = {[user_id |-> CallerOf(resp'.hdr), viewpoint |-> b.viewpoint.v,
                      step |-> b.step.v, memo |-> OrEmpty(b.memo)]}]_vars

\* a set answered with success while the caller holds step 4 with a memo
C5_Witness ==
    /\ resp.op = "setSelection" /\ resp.status = 200
    /\ \E s \in selections : s.user_id = CallerOf(resp.hdr) /\ s.step = 4 /\ s.memo = "m"

StepOutOfRange(step) == Falsy(step) \/ step.v < 1 \/ step.v > 4

C7_OnlyFixedViewpoints ==
    /\ [](\A s \in selections :
            /\ s.viewpoint \in validViewpoints
            /\ Cardinality(SelectionsOf(selections, s.user_id)) <= 5)
    /\ [][\A b \in SetInputs :
            (/\ resp'.op = "setSelection"
             /\ (Falsy(b.viewpoint) \/ b.viewpoint.v \notin validViewpoints)
             /\ SetSelectionReq(resp'.hdr, b.viewpoint, b.step, b.memo))
            => (resp'.status \in {400, 401} /\ selections' = selections)]_vars

C7_Witness ==
    /\ resp.op = "setSelection" /\ resp.status = 400 /\ resp.body = "invalid viewpoint"
    /\ SelectionsOf(selections, CallerOf(resp.hdr)) # {}

\* C8: an authenticated delete is answered with success whether or not the row exists,
\* leaves no row for (caller, viewpoint), and a second delete changes nothing more.
C8_DeleteIdempotent ==
    [][\A vp \in ViewpointParams :
          (/\ resp'.op = "deleteSelection" /\ ValidSession(resp'.hdr)
           /\ DeleteSelectionReq(resp'.hdr, vp))
          => /\ resp'.status = 200
             /\ SelectionAt(selections', CallerOf(resp'.hdr), vp) = {}
             /\ DeleteSelectionRows(selections', CallerOf(resp'.hdr), vp) = selections'
             /\ \A s \in selections :
                   (s.user_id # CallerOf(resp'.hdr) \/ s.viewpoint # vp)
                      => s \in selections']_vars

\* a delete answered with success by a caller who keeps another viewpoint's row
C8_Witness ==
    /\ resp.op = "deleteSelection" /\ resp.status = 200
    /\ Cardinality(SelectionsOf(selections, CallerOf(resp.hdr))) = 1

\* C9: after a member-delete request for user id is answered with success, no user,
\* selection, attendance, survey answer, custom answer or session row of id remains.
C9_MemberDeleteRemovesAllRows ==
    [][\A id \in UserIds :
          (/\ resp'.op = "memberDelete" /\ resp'.status = 200
           /\ MemberDeleteReq(resp'.hdr, id))
          => /\ \A u \in users' : u.id # id
             /\ \A r \in selections' : r.user_id # id
             /\ \A r \in attendances' : r.user_id # id
             /\ \A r \in survey_answers' : r.user_id # id
             /\ \A r \in custom_answers' : r.user_id # id
             /\ \A r \in sessions' : r.user_id # id]_vars

\* a successful member delete of a user who had been issued a token
C9_Witness ==
    /\ resp.op = "memberDelete" /\ resp.status = 200
    /\ \E tk \in DOMAIN issued : UserById(issued[tk].user) = {}

\* no row references a user or an event that is not stored
NoDanglingReference ==
    /\ \A r \in selections \cup sessions \cup attendances \cup survey_answers
                \cup custom_answers : UserById(r.user_id) # {}
    /\ \A e \in events : UserById(e.created_by) # {}
    /\ \A r \in attendances \cup survey_answers \cup custom_answers \cup survey_questions :
          EventById(r.event_id) # {}

\* C10: every foreign key cascades: a member delete by an admin of another user and an
\* event delete by an admin succeed and remove the row, and no row references a user
\* or event that is not stored.
C10_EveryForeignKeyCascades ==
    /\ []NoDanglingReference
    /\ [][/\ \A id \in UserIds :
               (/\ resp'.op = "memberDelete" /\ ValidSession(resp'.hdr)
                /\ RoleOf(CallerOf(resp'.hdr)) = "admin" /\ CallerOf(resp'.hdr) # id
                /\ MemberDeleteReq(resp'.hdr, id))
               => (resp'.status = 200 /\ \A u \in users' : u.id # id)
          /\ \A id \in EventIds :
               (/\ resp'.op = "eventDelete" /\ ValidSession(resp'.hdr)
                /\ RoleOf(CallerOf(resp'.hdr)) = "admin"
                /\ EventDeleteReq(resp'.hdr, id))
               => (resp'.status = 200 /\ \A e \in events' : e.id # id)]_vars

\* C11: no request fails part-way: a request answered with an error status has applied
\* none of its writes to the users, selections and event tables.
C11_NoPartialFailure == [][resp'.status >= 400 => dbRest' = dbRest]_vars

\* C12: a member delete whose id is the calling admin's own id is answered 400 and
\* leaves the users table and the selections table as they were.
C12_NoSelfDelete ==
    [][\A id \in UserIds :
          (/\ resp'.op = "memberDelete" /\ ValidSession(resp'.hdr)
           /\ RoleOf(CallerOf(resp'.hdr)) = "admin" /\ CallerOf(resp'.hdr) = id
           /\ MemberDeleteReq(resp'.hdr, id))
          => (resp'.status = 400 /\ users' = users /\ selections' = selections)]_vars

\* an admin who has stored a selection was refused the delete of their own account
C12_Witness ==
    /\ resp.op = "memberDelete" /\ resp.status = 400
    /\ ValidSession(resp.hdr)
    /\ SelectionsOf(selections, CallerOf(resp.hdr)) # {}

\* the users whose email is the supplied one and whose stored hash is the hash of the
\* supplied password
Matching(email, password) ==
    {u \in users : /\ email.t = "string" /\ password.t = "string"
                   /\ u.email = email.v /\ u.password_hash = hashPassword(password.v)}

\* C13 as stated: a login issues a token that authenticates as u exactly when the
\* email and the password hash are u's; every other pair is answered 401, issues no
\* token and changes no stored state.
C13_LoginExactlyOnMatch ==
    [][\A email \in EmailInputs, password \in PasswordInputs :
          (resp'.op = "login" /\ LoginReq(email, password))
          => IF Matching(email, password) # {}
             THEN /\ resp'.status = 200
                  /\ \E u \in Matching(email, password), tk \in 1..MaxTokens :
                        /\ resp'.body = [token |-> tk, user |-> u.id]
                        /\ getUserIdFromToken(tk)' = u.id
             ELSE resp'.status = 401 /\ db' = db /\ issued' = issued]_vars

\* C13 amended: as above, but a pair whose email or password is missing or empty is
\* answered 400, and only the other non-matching pairs are answered 401.
C13_LoginExactlyOnMatchElse400Or401 ==
    [][\A email \in EmailInputs, password \in PasswordInputs :
          (resp'.op = "login" /\ LoginReq(email, password))
          => IF Matching(email, password) # {}
             THEN /\ resp'.status = 200
                  /\ \E u \in Matching(email, password), tk \in 1..MaxTokens :
                        /\ resp'.body = [token |-> tk, user |-> u.id]
                        /\ getUserIdFromToken(tk)' = u.id
             ELSE /\ resp'.status = IF Falsy(email) \/ Falsy(password) THEN 400 ELSE 401
                  /\ db' = db /\ issued' = issued]_vars

\* a member who registered with a password of their own has logged in, and the token
\* of the response authenticates as that member
C13_Witness ==
    /\ resp.op = "login" /\ resp.status = 200
    /\ \E u \in users : /\ u.id = resp.body.user
                         /\ u.password_hash = hashPassword("pass1")
                         /\ getUserIdFromToken(resp.body.token) = u.id

\* C14: the member CSV export has exactly one data record per stored user: the records
\* after the header are as many as the users, and each user's email is in exactly one.
C14_ExportOneRowPerUser ==
    (resp.op = "adminExport" /\ resp.status = 200)
    => LET records == CsvRecords(resp.body)
       IN /\ Len(records) = 1 + Cardinality(users)
          /\ \A u \in users :
                Cardinality({i \in 2..Len(records) : records[i][3] = Chars(u.email)}) = 1

\* an export while one user has no selection and another has two, one of them with a
\* memo made of quotes and a newline
C14_Witness ==
    /\ resp.op = "adminExport" /\ resp.status = 200
    /\ \E u \in users : SelectionsOf(selections, u.id) = {}
    /\ \E u \in users :
          /\ Cardinality(SelectionsOf(selections, u.id)) = 2
          /\ \E s \in SelectionsOf(selections, u.id) : s.memo = "\"\n\""

\* the survey answer of a user for an event, if there is one
AnswerOf(id, userId) == {x \in survey_answers : x.event_id = id /\ x.user_id = userId}
\* a stored satisfaction as the export prints it (NULL prints as null)
SatisfactionText(satisfaction) ==
    IF satisfaction = 0 THEN <<"null">> ELSE <<Digits[satisfaction]>>

C16_AttendIdempotent ==
    /\ [](\A a1 \in attendances, a2 \in attendances :
            (a1.event_id = a2.event_id /\ a1.user_id = a2.user_id) => a1 = a2)
    /\ [][\A code \in EventIds :
            (/\ resp'.op = "attend" /\ ValidSession(resp'.hdr)
             /\ \E a \in attendances :
                   a.event_id = code /\ a.user_id = CallerOf(resp'.hdr)
             /\ AttendReq(resp'.hdr, code))
            => (resp'.status = 200 /\ attendances' = attendances)]_vars

\* an attend request answered 200 while the caller's attendance row is of an earlier week
C16_Witness ==
    /\ resp.op = "attend" /\ resp.status = 200 /\ ValidSession(resp.hdr)
    /\ \E a \in attendances : a.user_id = CallerOf(resp.hdr) /\ a.attended_at < now

\* the question ids a survey body answers, and the last answer it gives to one
Supplied(custom) == {custom[i].question_id : i \in 1..Len(custom)}
LastFor(custom, questionId) ==
    custom[CHOOSE i \in 1..Len(custom) :
              /\ custom[i].question_id = questionId
              /\ \A j \in (i + 1)..Len(custom) : custom[j].question_id # questionId]

\* C17: there is at most one survey_answers row per (event_id, user_id) and at most one
\* custom_answers row per (event_id, user_id, question_id); after a survey request
\* answered 200 the caller's survey row holds the submitted satisfaction and comment,
\* the row of each answered question holds the last text the body gives for it, and
\* every other row is as it was.
C17_SurveyUpsert ==
    /\ [](\A a1 \in survey_answers, a2 \in survey_answers :
            (a1.event_id = a2.event_id /\ a1.user_id = a2.user_id) => a1 = a2)
    /\ [](\A a1 \in custom_answers, a2 \in custom_answers :
            (/\ a1.event_id = a2.event_id /\ a1.user_id = a2.user_id
             /\ a1.question_id = a2.question_id) => a1 = a2)
    /\ [][\A code \in ExportEventIds, b \in ResubmitBodies :
            (/\ resp'.op = "survey" /\ resp'.status = 200
             /\ SurveyReq(resp'.hdr, code, b.satisfaction, b.comment, b.custom_answers))
            => LET uid == CallerOf(resp'.hdr)
                   mine(r) == r.event_id = code /\ r.user_id = uid
               IN /\ {r \in survey_answers' : mine(r)}
                        = {[event_id |-> code, user_id |-> uid,
                            satisfaction |-> IF Falsy(b.satisfaction) THEN 0
                                             ELSE b.satisfaction.v,
                            comment |-> OrEmpty(b.comment)]}
                  /\ {r \in survey_answers' : ~mine(r)} = {r \in survey_answers : ~mine(r)}
                  /\ \A q \in Supplied(b.custom_answers) :
                        {r \in custom_answers' : mine(r) /\ r.question_id = q}
                            = {[event_id |-> code, user_id |-> uid, question_id |-> q,
                                answer_text |->
                                    OrEmpty(LastFor(b.custom_answers, q).answer_text)]}
                  /\ {r \in custom_answers' :
                          ~(mine(r) /\ r.question_id \in Supplied(b.custom_answers))}
                        = {r \in custom_answers :
                              ~(mine(r) /\ r.question_id \in Supplied(b.custom_answers))}]_vars

\* a survey request answered 200 that replaced the caller's survey answer and gave no
\* custom answer, while the custom answer of an earlier submission is still stored
C17_Witness ==
    /\ resp.op = "survey" /\ resp.status = 200 /\ ValidSession(resp.hdr)
    /\ \E a \in survey_answers, c \in custom_answers :
          /\ a.user_id = CallerOf(resp.hdr) /\ a.satisfaction = 0 /\ a.comment = "c,\"d"
          /\ c.user_id = a.user_id /\ c.event_id = a.event_id /\ c.answer_text = "y"

\* C18: the admin member list has, for every user, exactly that user's stored selections:
\* one entry per stored viewpoint with the stored step and the stored memo text.
C18_MemberListShowsStoredSelections ==
    (resp.op = "adminMembers" /\ resp.status = 200)
    => \A u \in users :
          \E m \in resp.body :
             /\ m.id = u.id
             /\ m.selections = {[viewpoint |-> <<s.viewpoint>>, step |-> Num(s.step),
                                  memo |-> Chars(s.memo)] : s \in SelectionsOf(selections, u.id)}

\* C19: every stored user's role is member or admin, and a role change by an admin whose
\* role is neither of the two is answered 400 and changes nothing stored.
C19_OnlyMemberOrAdmin ==
    /\ [](\A u \in users : u.role \in {"member", "admin"})
    /\ [][\A id \in UserIds, role \in RoleInputs :
            (/\ resp'.op = "roleChange" /\ ValidSession(resp'.hdr)
             /\ RoleOf(CallerOf(resp'.hdr)) = "admin"
             /\ role \notin {Str("member"), Str("admin")}
             /\ RoleChangeReq(resp'.hdr, id, role))
            => (resp'.status = 400 /\ db' = db)]_vars

\* a role change was refused while a member account is stored
C19_Witness ==
    /\ resp.op = "roleChange" /\ resp.status = 400 /\ resp.body = "invalid role"
    /\ \E u \in users : u.role = "member"

\* C20: sessions outlive a restart: a request with a token issued before the last
\* restart is let through, as the user the token was issued to, exactly when the token
\* has not been logged out, is at most 7 days old and its user is stored; and a restart
\* changes no stored row.
C20_SessionsSurviveRestart ==
    /\ []((resp.op = "me" /\ resp.hdr.token \in restarted)
            => /\ (resp.status = 200) <=> ShouldAccept(resp.hdr)
               /\ resp.status = 200 => resp.body.user = issued[resp.hdr.token].user)
    /\ [][resp'.op = "restart" => db' = db]_vars

\* a token issued before a restart was accepted after it
C20_Witness == resp.op = "me" /\ resp.status = 200 /\ resp.hdr.token \in restarted

\* C21: GET /api/init creates the default admin (admin@example.com, role admin) when no
\* user has that email, and otherwise leaves the users table as it is; in both cases
\* every existing user, selection, event and unexpired session is unchanged.
C21_InitNonDestructive ==
    [][resp'.op = "init" =>
          /\ users \subseteq users'
          /\ IF UserByEmail(ADMIN_EMAIL) = {}
             THEN \E u \in users' \ users :
                     /\ users' = users \cup {u}
                     /\ u.email = ADMIN_EMAIL /\ u.role = "admin"
                     /\ u.password_hash = hashPassword(ADMIN_PASSWORD)
             ELSE users' = users
          /\ selections' = selections
          /\ eventTables' = eventTables
          /\ \A s \in sessions : ~IsExpired(s) => s \in sessions'
          /\ sessions' \subseteq sessions]_vars

\* init re-created the default admin on a database that holds selections, events and
\* sessions
C21_Witness ==
    /\ resp.op = "init"
    /\ \E u \in users : u.email = ADMIN_EMAIL /\ u.id # 1
    /\ selections # {} /\ events # {} /\ sessions # {}

\* C22: on My Page at most one step cell per viewpoint is selected at any time, and one
\* save sends at most one set request per viewpoint.
C22_OneCellPerViewpoint ==
    /\ \A c1 \in page.selected, c2 \in page.selected : c1[1] = c2[1] => c1 = c2
    /\ \A r1 \in page.sent, r2 \in page.sent :
          (r1.method = "POST" /\ r2.method = "POST" /\ r1.viewpoint = r2.viewpoint) => r1 = r2

\* the rows of the four tables that reference event id
RowsOfEvent(id) ==
    {r \in attendances \cup survey_answers \cup custom_answers \cup survey_questions :
        r.event_id = id}

\* C23: after an admin's event delete is answered 200 the event row is gone and no
\* attendance, survey answer, custom answer or survey question of the event remains;
\* an attend or survey request that names the code of an event that was created and
\* is gone is answered 404 (401 without a valid session) and writes nothing.
C23_EventDeleteRemovesAll ==
    [][/\ \A hdr \in IssuedHeaders, id \in EventIds :
             (EventDeleteReq(hdr, id) /\ resp'.status = 200)
                 => (EventById(id)' = {} /\ RowsOfEvent(id)' = {})
       /\ \A id \in 1..eventSeq : EventById(id) = {} => RowsOfEvent(id) = {}
       /\ \A hdr \in IssuedHeaders, code \in 1..eventSeq :
             (EventById(code) = {}
                 /\ (AttendReq(hdr, code) \/ SurveyReq(hdr, code, Num(3), Str("c"), <<>>)
                        \/ SurveyReq(hdr, code, Num(3), Str("c"), <<CustomAnswer(1, Str("x"))>>)))
                 => (resp'.status \in {401, 404} /\ dbRest' = dbRest)]_vars

\* a survey request for the code of a deleted event was answered 404
C23_Witness ==
    /\ resp.op = "survey" /\ resp.status = 404
    /\ eventSeq = 1 /\ events = {} /\ RowsOfEvent(1) = {}

\* C24: when attend and survey requests interleave with the statements of an event's
\* deletion, or with each other, no state in which every request has finished holds an
\* attendance, survey answer or custom answer of an event that does not exist, and
\* every such request is answered 200 or 404.
C24_InterleavedRequestsSucceedOrNotFound ==
    /\ calls = {} =>
          \A r \in attendances \cup survey_answers \cup custom_answers :
              EventById(r.event_id) # {}
    /\ resp.op \in {"attend", "survey"} => resp.status \in {200, 404}

\* the first half of C24 alone
NoRowOfMissingEvent ==
    calls = {} =>
        \A r \in attendances \cup survey_answers \cup custom_answers : EventById(r.event_id) # {}

\* C25: when registrations with the same email run at the same time, at most one user row
\* holds the email, at most one token is issued for it, and every registration is
\* answered with a token or with one of the 400 responses of the sequential handler.
C25_ConcurrentRegisterOneWinner ==
    /\ EmailsUnique
    /\ \A t1 \in DOMAIN issued, t2 \in DOMAIN issued :
          issued[t1].user = issued[t2].user => t1 = t2
    /\ resp.op = "register" => resp.status \in {200, 400}

\* the first two parts of C25 alone
OneRowAndOneTokenPerEmail ==
    /\ EmailsUnique
    /\ \A t1 \in DOMAIN issued, t2 \in DOMAIN issued :
          issued[t1].user = issued[t2].user => t1 = t2

\* C26: every reachable state holds at least one user with role admin.
C26_AlwaysAnAdmin == \E u \in users : u.role = "admin"

\* user id is stored with role admin
StoredAdmin(id) == \E u \in users : u.id = id /\ u.role = "admin"

\* C27: a request to an admin route made with a valid token is rejected with 403 exactly
\* when the token's user is stored with a role other than admin at that moment, whatever
\* the role was when the token was issued; right after a successful role change every
\* valid token passes or fails the admin gate according to the roles just stored.
C27_RoleChangeTakesEffectAtOnce ==
    [][/\ (resp'.op \in AdminOps /\ ValidSession(resp'.hdr))
             => (resp'.status = 403 <=> ~StoredAdmin(CallerOf(resp'.hdr)))
       /\ (resp'.op = "roleChange" /\ resp'.status = 200)
             => \A tk \in DOMAIN issued :
                    ValidSession(Bearer(tk))'
                        => adminGate(Bearer(tk))'.status =
                               IF StoredAdmin(CallerOf(Bearer(tk)))' THEN 200 ELSE 403]_vars

\* the first token ever issued, issued to the default admin while admin, is rejected
\* with 403 by an admin route after the role was changed to member
C27_Witness ==
    /\ resp.op \in AdminOps /\ resp.status = 403
    /\ resp.hdr = Bearer(1) /\ issued[1].user = 1

\* C28: a registration creates its user with role member; the role of a stored user
\* changes only in a role-change request that is answered 200 and was made with a valid
\* token of a user stored as admin at that moment.
C28_OnlyAdminsGrantRoles ==
    [][/\ resp'.op = "register" => \A u \in users' \ users : u.role = "member"
       /\ \A u \in users, v \in users' :
             (u.id = v.id /\ u.role # v.role)
                 => /\ resp'.op = "roleChange" /\ resp'.status = 200
                    /\ ValidSession(resp'.hdr)
                    /\ StoredAdmin(CallerOf(resp'.hdr))]_vars

\* a registered user was made admin by a role change
C28_Witness ==
    /\ resp.op = "roleChange" /\ resp.status = 200
    /\ \E u \in users : u.email # ADMIN_EMAIL /\ u.role = "admin"

\* the selection rows other than the one of user uid and viewpoint (all rows when the
\* viewpoint is missing)
OtherSelections(rows, uid, viewpoint) ==
    {s \in rows : ~(s.user_id = uid /\ viewpoint.t = "string" /\ s.viewpoint = viewpoint.v)}

\* C29: a get returns exactly the rows whose user_id is the caller's; a set or delete
\* leaves unchanged every row of every other user and the caller's rows of every other
\* viewpoint, and a request without a valid session changes no row.
C29_SelectionsOnlyOwnRows ==
    [][/\ (resp'.op = "getSelections" /\ resp'.status = 200)
             => /\ ValidSession(resp'.hdr)
                /\ resp'.body = {s \in selections : s.user_id = CallerOf(resp'.hdr)}
       /\ \A hdr \in Headers, b \in SetInputs :
             SetSelectionReq(hdr, b.viewpoint, b.step, b.memo)
                 => IF ValidSession(hdr)
                    THEN OtherSelections(selections', CallerOf(hdr), b.viewpoint)
                             = OtherSelections(selections, CallerOf(hdr), b.viewpoint)
                    ELSE selections' = selections
       /\ \A hdr \in Headers, viewpoint \in ViewpointParams :
             DeleteSelectionReq(hdr, viewpoint)
                 => IF ValidSession(hdr)
                    THEN OtherSelections(selections', CallerOf(hdr), Str(viewpoint))
                             = OtherSelections(selections, CallerOf(hdr), Str(viewpoint))
                    ELSE selections' = selections]_vars

\* a set succeeded for a caller who holds a row of another viewpoint, while another user
\* holds a row of the same viewpoint
C29_Witness ==
    /\ resp.op = "setSelection" /\ resp.status = 200
    /\ \E s \in selections, t \in selections, o \in selections :
          /\ s.user_id = CallerOf(resp.hdr) /\ t.user_id = s.user_id /\ t.viewpoint # s.viewpoint
          /\ o.user_id # s.user_id /\ o.viewpoint = s.viewpoint

\* C30: a successful login or registration adds one session with a token no session had
\* and leaves every earlier session as it was; a logout is answered 200 whatever the
\* header, removes the session of the presented token and nothing else, and writes no
\* other table.
C30_LoginLogoutTouchOneToken ==
    [][/\ (resp'.op \in {"login", "register"} /\ resp'.status = 200)
             => /\ \A s \in sessions : s.token # resp'.body.token
                /\ sessions' = sessions \cup {[token |-> resp'.body.token,
                                                user_id |-> resp'.body.user,
                                                expires_at |-> now + TTL_WEEKS]}
       /\ resp'.op = "logout"
             => /\ resp'.status = 200
                /\ sessions' = {s \in sessions :
                                  ~(resp'.hdr.kind = "bearer" /\ s.token = resp'.hdr.token)}
                /\ dbRest' = dbRest]_vars

\* a token was logged out while its user keeps another session, and a login added a
\* session to a user who had one
C30_Witness ==
    /\ resp.op = "logout" /\ resp.hdr.kind = "bearer" /\ resp.hdr.token \in DOMAIN issued
    /\ \A s \in sessions : s.token # resp.hdr.token
    /\ \E s \in sessions : s.user_id = issued[resp.hdr.token].user
====
